---------------------------- MODULE Spec2Model ----------------------------
(***************************************************************************)
(* Alignment and scoring engine of the pronunciation assessment.           *)
(*                                                                         *)
(*   - computeAlignmentOps / buildWordTimelineFromSherpa                   *)
(*       (sherpa timeline module: tolerant edit-distance alignment of the  *)
(*       reference tokens with the recognized words, and the word windows  *)
(*       derived from it);                                                 *)
(*   - ScoringEngine.assess (renderer/lib/scoring-engine.ts: exact-match   *)
(*       alignment and the score aggregation);                             *)
(*   - the scorers of the assessment hook and TransformersScoringService;  *)
(*   - the initialization handshake of the Sherpa worker;                  *)
(*   - the unhandledRejection listeners of EchogardenWrapper.              *)
(*                                                                         *)
(* Words and texts are sequences of one-character strings.  Times are in   *)
(* milliseconds, confidences in thousandths; both are exact rationals of   *)
(* the doubles the program computes with.                                  *)
(***************************************************************************)
EXTENDS Integers, Sequences, FiniteSets, TLC

VARIABLES
    alignPc,      \* computeAlignmentOps: "idle" | "backtrace" | "done"
    refTokens,    \* computeAlignmentOps: its refTokens argument
    hypTokens,    \* computeAlignmentOps: its hypTokens argument
    dp,           \* computeAlignmentOps: the cost table dp[i][j]
    bi,           \* computeAlignmentOps: backtrace row i
    bj,           \* computeAlignmentOps: backtrace column j
    ops,          \* computeAlignmentOps: ops pushed so far / returned
    tlPc,         \* buildWordTimelineFromSherpa: "idle" | "running" | "done"
    tlInput,      \* its arguments [referenceText, sherpaWords]
    tlResult,     \* its result [timeline, tokens, ops]
    asPc,         \* ScoringEngine.assess: "idle" | "running" | "done"
    asInput,      \* its argument [referenceText, recognizedTokens]
    asTrace,      \* the alignment and counters the call computed
    asReport,     \* the AssessmentReport it returned
    scPc,         \* the other scorers: "idle" | "done"
    scInput,      \* which scorer was called, and its arguments
    scResult,     \* the scores it returned
    shInited,     \* sherpa-wasm client: inited
    shInitPromise, \* sherpa-wasm client: initPromise, "none" | "pending"
    shCalls,      \* number of initSherpaWasm calls made
    shRejected,   \* number of init promises the client rejected
    toWorker,     \* messages posted to the worker, not yet handled
    toClient,     \* replies posted by the worker, not yet handled
    wkInitPromise, \* worker: initPromise, "none" | "pending" | "fulfilled" | "rejected"
    wkAwaiting,   \* worker: number of init handlers waiting at await initPromise
    wkInitRuns,   \* worker: number of times init(payload) was started
    causePresent, \* what makes init fail (a model file that cannot be fetched) is there
    egCalls,      \* EchogardenWrapper: the calls made, each with its promises
    egListeners   \* process: the registered "unhandledRejection" listeners (call numbers)

vars == <<alignPc, refTokens, hypTokens, dp, bi, bj, ops,
          tlPc, tlInput, tlResult, asPc, asInput, asTrace, asReport,
          scPc, scInput, scResult,
          shInited, shInitPromise, shCalls, shRejected, toWorker, toClient,
          wkInitPromise, wkAwaiting, wkInitRuns, causePresent,
          egCalls, egListeners>>

alignVars == <<alignPc, refTokens, hypTokens, dp, bi, bj, ops>>
tlVars == <<tlPc, tlInput, tlResult>>
asVars == <<asPc, asInput, asTrace, asReport>>
scVars == <<scPc, scInput, scResult>>
shVars == <<shInited, shInitPromise, shCalls, shRejected, toWorker, toClient,
            wkInitPromise, wkAwaiting, wkInitRuns, causePresent>>
egVars == <<egCalls, egListeners>>

-----------------------------------------------------------------------------
(* Generic helpers *)

Min2(a, b) == IF a <= b THEN a ELSE b
Max2(a, b) == IF a >= b THEN a ELSE b
Min3(a, b, c) == Min2(a, Min2(b, c))

\* All sequences over S of length 0..n.
SeqsUpTo(S, n) == UNION {[1..k -> S] : k \in 0..n}

\* Array.prototype.reverse (and, before it, the array left as pushed)
NotReversed(s) == s
Reverse(s) == [k \in 1..Len(s) |-> s[Len(s) + 1 - k]]

RECURSIVE SumSeq(_)
SumSeq(s) == IF s = <<>> THEN 0 ELSE s[1] + SumSeq(Tail(s))

RECURSIVE Flatten(_)
Flatten(ss) == IF ss = <<>> THEN <<>> ELSE ss[1] \o Flatten(Tail(ss))

-----------------------------------------------------------------------------
(* Words of the model *)

wThe  == <<"t", "h", "e">>
wCat  == <<"c", "a", "t">>
wSat  == <<"s", "a", "t">>
wKat  == <<"k", "a", "t">>
wCats == <<"c", "a", "t", "s">>

-----------------------------------------------------------------------------
(* Sherpa timeline module: levenshteinDistance, tokensRoughlyMatch *)

\* One cell per column j = 0..Len(b) of matrix row i; cur holds columns 0..Len(cur)-1.
RECURSIVE LevFillRow(_, _, _, _, _)
LevFillRow(a, b, i, prev, cur) ==
    IF Len(cur) = Len(b) + 1 THEN cur
    ELSE LET j == Len(cur)
             cost == IF a[i] = b[j] THEN 0 ELSE 1
             v == Min3(prev[j + 1] + 1, cur[j] + 1, prev[j] + cost)
         IN LevFillRow(a, b, i, prev, Append(cur, v))

RECURSIVE LevRow(_, _, _)
LevRow(a, b, i) ==
    IF i = 0 THEN [j \in 1..(Len(b) + 1) |-> j - 1]
    ELSE LevFillRow(a, b, i, LevRow(a, b, i - 1), <<i>>)

levenshteinDistance(a, b) ==
    IF a = b THEN 0
    ELSE IF a = <<>> THEN Len(b)
    ELSE IF b = <<>> THEN Len(a)
    ELSE LevRow(a, b, Len(a))[Len(b) + 1]

\* distance / maxLen <= 0.45, over the integers (before it: the threshold at
\* one half, and the distance compared without dividing by maxLen)
RoughThresholdHalf(distance, maxLen) == 100 * distance <= 50 * maxLen
RoughThresholdUndivided(distance, maxLen) == 100 * distance <= 45
RoughThreshold(distance, maxLen) == 100 * distance <= 45 * maxLen

\* An out-of-range array read; falsy like the empty string, equal to neither.
Undefined == <<"undefined">>
Falsy(w) == w = <<>> \/ w = Undefined
TokenAt(tokens, index0) ==
    IF index0 + 1 \in 1..Len(tokens) THEN tokens[index0 + 1] ELSE Undefined

tokensRoughlyMatch(left, right) ==
    IF left = right THEN TRUE
    ELSE IF Falsy(left) \/ Falsy(right) THEN FALSE
    ELSE LET distance == levenshteinDistance(left, right)
             maxLen == IF Max2(Len(left), Len(right)) = 0 THEN 1
                       ELSE Max2(Len(left), Len(right))
         IN RoughThreshold(distance, maxLen)

-----------------------------------------------------------------------------
(* Sherpa timeline module: computeAlignmentOps *)

\* refIndex / hypIndex of an op that has no such field
NoIndex == -1

OpEqual(r, h)   == [type |-> "equal",   refIndex |-> r, hypIndex |-> h]
OpReplace(r, h) == [type |-> "replace", refIndex |-> r, hypIndex |-> h]
OpDelete(r)     == [type |-> "delete",  refIndex |-> r, hypIndex |-> NoIndex]
OpInsert(h)     == [type |-> "insert",  refIndex |-> NoIndex, hypIndex |-> h]

\* cost of pairing refTokens[i-1] with hypTokens[j-1] (i, j as in the loops)
SubstCost(ref, hyp, i, j) ==
    IF tokensRoughlyMatch(ref[i], hyp[j]) THEN 0 ELSE 1

\* dp[i][j] = Math.min(dp[i-1][j] + 1, dp[i][j-1] + 1, dp[i-1][j-1] + cost)
\* (before it: every diagonal step charged 1)
DpCellUnitCost(up, left, diag, cost) == Min3(up + 1, left + 1, diag + 1)
DpCell(up, left, diag, cost) == Min3(up + 1, left + 1, diag + cost)

\* Row i of dp, columns 0..Len(hyp); cur holds the columns filled so far.
RECURSIVE DpFillRow(_, _, _, _, _)
DpFillRow(ref, hyp, i, prev, cur) ==
    IF Len(cur) = Len(hyp) + 1 THEN cur
    ELSE LET j == Len(cur)
             v == DpCell(prev[j + 1], cur[j], prev[j], SubstCost(ref, hyp, i, j))
         IN DpFillRow(ref, hyp, i, prev, Append(cur, v))

\* Rows 0..i of dp; row i is element i+1, column j is element j+1 of a row.
RECURSIVE DpRows(_, _, _)
DpRows(ref, hyp, i) ==
    IF i = 0 THEN << [j \in 1..(Len(hyp) + 1) |-> j - 1] >>
    ELSE LET rows == DpRows(ref, hyp, i - 1)
         IN Append(rows, DpFillRow(ref, hyp, i, rows[i], <<i>>))

DpTable(ref, hyp) == DpRows(ref, hyp, Len(ref))
DpAt(t, i, j) == t[i + 1][j + 1]

\* Bounds of the alignment inputs
MaxRefLen == 3
MaxHypLen == 2
AlignVocab == {wThe, wCat, wSat, wCats}
HypVocab == {wThe, wCat, wSat}

Idle == [none |-> TRUE]

AlignIdle ==
    /\ alignPc = "idle"
    /\ refTokens = <<>>
    /\ hypTokens = <<>>
    /\ dp = <<>>
    /\ bi = 0
    /\ bj = 0
    /\ ops = <<>>

\* lines 86-109: the table is filled, the backtrace starts at (n, m)
AlignCall ==
    /\ alignPc = "idle"
    /\ \E ref \in SeqsUpTo(AlignVocab, MaxRefLen), hyp \in SeqsUpTo(HypVocab, MaxHypLen) :
          /\ refTokens' = ref
          /\ hypTokens' = hyp
          /\ dp' = DpTable(ref, hyp)
          /\ bi' = Len(ref)
          /\ bj' = Len(hyp)
    /\ ops' = <<>>
    /\ alignPc' = "backtrace"
    /\ UNCHANGED <<tlVars, asVars, scVars, shVars, egVars>>

\* the tests of one iteration of the while loop, in the code's order
TakesDelete(t, i, j) == i > 0 /\ DpAt(t, i, j) = DpAt(t, i - 1, j) + 1
TakesInsert(t, i, j) == j > 0 /\ DpAt(t, i, j) = DpAt(t, i, j - 1) + 1

\* lines 123-128: the op pushed when neither test holds
DiagonalOp(ref, hyp, i, j) ==
    IF tokensRoughlyMatch(TokenAt(ref, i - 1), TokenAt(hyp, j - 1))
    THEN OpEqual(i - 1, j - 1)
    ELSE OpReplace(i - 1, j - 1)

\* (before it: the insertion tested before the deletion)
BacktraceStepInsertFirst(t, ref, hyp, i, j) ==
    IF TakesInsert(t, i, j) THEN [op |-> OpInsert(j - 1), i |-> i, j |-> j - 1]
    ELSE IF TakesDelete(t, i, j) THEN [op |-> OpDelete(i - 1), i |-> i - 1, j |-> j]
    ELSE [op |-> DiagonalOp(ref, hyp, i, j), i |-> i - 1, j |-> j - 1]
\* lines 111-131: one iteration of the while loop: the op pushed and the new i, j
BacktraceStep(t, ref, hyp, i, j) ==
    IF TakesDelete(t, i, j) THEN [op |-> OpDelete(i - 1), i |-> i - 1, j |-> j]
    ELSE IF TakesInsert(t, i, j) THEN [op |-> OpInsert(j - 1), i |-> i, j |-> j - 1]
    ELSE [op |-> DiagonalOp(ref, hyp, i, j), i |-> i - 1, j |-> j - 1]

\* lines 107-131: the whole loop, from (i, j), after the ops in acc
RECURSIVE BacktraceFrom(_, _, _, _, _, _)
BacktraceFrom(t, ref, hyp, i, j, acc) ==
    IF ~(i > 0 \/ j > 0) THEN acc
    ELSE LET st == BacktraceStep(t, ref, hyp, i, j)
         IN BacktraceFrom(t, ref, hyp, st.i, st.j, Append(acc, st.op))

\* lines 82-134, as one function (the caller's view)
computeAlignmentOps(ref, hyp) ==
    Reverse(BacktraceFrom(DpTable(ref, hyp), ref, hyp, Len(ref), Len(hyp), <<>>))

\* lines 112-116
BacktraceDelete ==
    /\ alignPc = "backtrace"
    /\ bi > 0 \/ bj > 0
    /\ TakesDelete(dp, bi, bj)
    /\ LET st == BacktraceStep(dp, refTokens, hypTokens, bi, bj)
       IN ops' = Append(ops, st.op) /\ bi' = st.i /\ bj' = st.j
    /\ UNCHANGED <<alignPc, refTokens, hypTokens, dp, tlVars, asVars, scVars, shVars, egVars>>

\* lines 117-121
BacktraceInsert ==
    /\ alignPc = "backtrace"
    /\ bi > 0 \/ bj > 0
    /\ ~TakesDelete(dp, bi, bj)
    /\ TakesInsert(dp, bi, bj)
    /\ LET st == BacktraceStep(dp, refTokens, hypTokens, bi, bj)
       IN ops' = Append(ops, st.op) /\ bi' = st.i /\ bj' = st.j
    /\ UNCHANGED <<alignPc, refTokens, hypTokens, dp, tlVars, asVars, scVars, shVars, egVars>>

\* lines 123-130
BacktraceDiagonal ==
    /\ alignPc = "backtrace"
    /\ bi > 0 \/ bj > 0
    /\ ~TakesDelete(dp, bi, bj)
    /\ ~TakesInsert(dp, bi, bj)
    /\ LET st == BacktraceStep(dp, refTokens, hypTokens, bi, bj)
       IN ops' = Append(ops, st.op) /\ bi' = st.i /\ bj' = st.j
    /\ UNCHANGED <<alignPc, refTokens, hypTokens, dp, tlVars, asVars, scVars, shVars, egVars>>

\* line 133: return ops.reverse()
AlignReturn ==
    /\ alignPc = "backtrace"
    /\ ~(bi > 0 \/ bj > 0)
    /\ ops' = Reverse(ops)
    /\ alignPc' = "done"
    /\ UNCHANGED <<refTokens, hypTokens, dp, bi, bj, tlVars, asVars, scVars, shVars, egVars>>

\* the caller is done with the result; the next call starts afresh
AlignReset ==
    /\ alignPc = "done"
    /\ alignPc' = "idle"
    /\ refTokens' = <<>>
    /\ hypTokens' = <<>>
    /\ dp' = <<>>
    /\ bi' = 0
    /\ bj' = 0
    /\ ops' = <<>>
    /\ UNCHANGED <<tlVars, asVars, scVars, shVars, egVars>>

-----------------------------------------------------------------------------
(* Characters and texts *)

LowerLetters == {"a", "c", "e", "h", "k", "s", "t"}
UpperLetters == {"A", "C", "E", "H", "K", "S", "T"}
\* a precomposed accented letter and the combining mark of its decomposition
EAcute == "e-acute"
CombiningAcute == "U+0301"
Letters == LowerLetters \cup UpperLetters \cup {EAcute}
Whitespace == {" "}
Apostrophes == {"'", "right-quote"}

\* String.prototype.toLowerCase, one character
LowerChar(c) ==
    CASE c = "A" -> "a" [] c = "C" -> "c" [] c = "E" -> "e" [] c = "H" -> "h"
      [] c = "K" -> "k" [] c = "S" -> "s" [] c = "T" -> "t" [] OTHER -> c
toLowerCase(text) == [k \in 1..Len(text) |-> LowerChar(text[k])]

\* String.prototype.trim
RECURSIVE TrimLeft(_)
TrimLeft(text) ==
    IF text # <<>> /\ text[1] \in Whitespace THEN TrimLeft(Tail(text)) ELSE text
\* (before it: the text as it is)
NoTrim(text) == text
trim(text) == Reverse(TrimLeft(Reverse(TrimLeft(text))))

\* replace(/[class]/g, ""): the characters of the class dropped
RECURSIVE RemoveChars(_, _)
RemoveChars(text, class) ==
    IF text = <<>> THEN <<>>
    ELSE IF text[1] \in class THEN RemoveChars(Tail(text), class)
    ELSE <<text[1]>> \o RemoveChars(Tail(text), class)

\* The maximal runs of characters of the class, left to right: the matches of
\* /[class]+/g, and the non-empty pieces of a split on the complement.
RECURSIVE RunsFrom(_, _, _, _)
RunsFrom(text, class, cur, acc) ==
    IF text = <<>> THEN (IF cur = <<>> THEN acc ELSE Append(acc, cur))
    ELSE IF text[1] \in class THEN RunsFrom(Tail(text), class, Append(cur, text[1]), acc)
    ELSE RunsFrom(Tail(text), class, <<>>, IF cur = <<>> THEN acc ELSE Append(acc, cur))
Runs(text, class) == RunsFrom(text, class, <<>>, <<>>)

-----------------------------------------------------------------------------
(* Sherpa timeline module: tokenizeForAlignment *)

\* WORD_PATTERN = /[\p{L}\p{N}'\u2019]+/gu
\* (before it: the blank taken as a word character)
WordPatternCharsWithBlank == Letters \cup Apostrophes \cup Whitespace
WordPatternChars == Letters \cup Apostrophes
\* /[\u201c\u201d"()\[\],.:;!?]/g
AlignmentPunctuation ==
    {"left-dquote", "right-dquote", "\"", "(", ")", "[", "]", ",", ".", ":", ";", "!", "?"}
\* /[\u0300-\u036f]/g
CombiningMarks == {CombiningAcute}

\* String.prototype.normalize("NFKD")
NfkdChar(c) == IF c = EAcute THEN <<"e", CombiningAcute>> ELSE <<c>>
Nfkd(text) == Flatten([k \in 1..Len(text) |-> NfkdChar(text[k])])

normalizeWordForAlignment(word) ==
    trim(toLowerCase(RemoveChars(RemoveChars(Nfkd(word), AlignmentPunctuation),
                                 CombiningMarks)))

WordToken(original) ==
    [original |-> original, normalized |-> normalizeWordForAlignment(original)]
HasNormalized(token) == token.normalized # <<>>

tokenizeForAlignment(text) ==
    IF text = <<>> THEN <<>>
    ELSE LET matches == Runs(text, WordPatternChars)
         IN SelectSeq([k \in 1..Len(matches) |-> WordToken(matches[k])], HasNormalized)

-----------------------------------------------------------------------------
(* Sherpa timeline module: padWordWindow, buildWordTimelineFromSherpa *)

\* A number that is not finite (NaN, an undefined field, Infinity)
NaN == -999999

MIN_WORD_DURATION == 50
START_PADDING_SEC == 200
END_PADDING_SEC == 300
\* the window of an omitted word: it starts 0.1 s before lastEnd and lasts 0.4 s
OMITTED_BACKOFF == 100
OMITTED_DURATION == 400

safeNumber(value, fallback) == IF value = NaN THEN fallback ELSE value

\* (before it: the minimum duration enforced on the padded window only)
padWordWindowFloorAfterPadding(start, end) ==
    LET safeStart == safeNumber(start, 0)
        safeEnd == safeNumber(end, safeStart)
        paddedStart == Max2(0, safeStart - START_PADDING_SEC)
        paddedEnd == Max2(paddedStart + MIN_WORD_DURATION, safeEnd + END_PADDING_SEC)
    IN [start |-> paddedStart, end |-> paddedEnd]
\* (before it: no minimum duration enforced on the padded window)
padWordWindowNoFinalFloor(start, end) ==
    LET safeStart == safeNumber(start, 0)
        safeEnd == Max2(safeStart + MIN_WORD_DURATION, safeNumber(end, safeStart))
    IN [start |-> Max2(0, safeStart - START_PADDING_SEC), end |-> safeEnd + END_PADDING_SEC]
\* lines 141-147
padWordWindow(start, end) ==
    LET safeStart == safeNumber(start, 0)
        safeEnd == Max2(safeStart + MIN_WORD_DURATION, safeNumber(end, safeStart))
        paddedStart == Max2(0, safeStart - START_PADDING_SEC)
        paddedEnd == Max2(paddedStart + MIN_WORD_DURATION, safeEnd + END_PADDING_SEC)
    IN [start |-> paddedStart, end |-> paddedEnd]

TimelineEntry(text, start, end) == [text |-> text, startTime |-> start, endTime |-> end]

\* (before it: the window of an omitted word did not move lastEnd)
EntryOfOpOmittedKeepsLastEnd(tokens, sherpaWords, op, lastEnd) ==
    IF op.type \in {"equal", "replace"}
    THEN LET word == tokens[op.refIndex + 1]
             meta == sherpaWords[op.hypIndex + 1]
             w == padWordWindow(meta.startTime, meta.endTime)
         IN [entries |-> << TimelineEntry(IF word.original # <<>> THEN word.original
                                           ELSE meta.original, w.start, w.end) >>,
             lastEnd |-> w.end]
    ELSE IF op.type = "delete"
    THEN LET word == tokens[op.refIndex + 1]
             start == Max2(0, lastEnd - OMITTED_BACKOFF)
             end == start + OMITTED_DURATION
         IN [entries |-> << TimelineEntry(word.original, start, end) >>,
             lastEnd |-> lastEnd]
    ELSE [entries |-> <<>>, lastEnd |-> lastEnd]
\* lines 239-263: the entry one op adds (none for an insert) and lastEnd after it
EntryOfOp(tokens, sherpaWords, op, lastEnd) ==
    IF op.type \in {"equal", "replace"}
    THEN LET word == tokens[op.refIndex + 1]
             meta == sherpaWords[op.hypIndex + 1]
             w == padWordWindow(meta.startTime, meta.endTime)
         IN [entries |-> << TimelineEntry(IF word.original # <<>> THEN word.original
                                           ELSE meta.original, w.start, w.end) >>,
             lastEnd |-> w.end]
    ELSE IF op.type = "delete"
    THEN LET word == tokens[op.refIndex + 1]
             start == Max2(0, lastEnd - OMITTED_BACKOFF)
             end == start + OMITTED_DURATION
         IN [entries |-> << TimelineEntry(word.original, start, end) >>,
             lastEnd |-> end]
    ELSE [entries |-> <<>>, lastEnd |-> lastEnd]

RECURSIVE TimelineFrom(_, _, _, _, _)
TimelineFrom(tokens, sherpaWords, os, lastEnd, entries) ==
    IF os = <<>> THEN entries
    ELSE LET r == EntryOfOp(tokens, sherpaWords, os[1], lastEnd)
         IN TimelineFrom(tokens, sherpaWords, Tail(os), r.lastEnd, entries \o r.entries)

buildTimelineEntriesFromOps(tokens, sherpaWords, os) ==
    TimelineFrom(tokens, sherpaWords, os, 0, <<>>)

NormalizedOf(items) == [k \in 1..Len(items) |-> items[k].normalized]

buildWordTimelineFromSherpa(referenceText, sherpaWords) ==
    LET tokens == tokenizeForAlignment(referenceText)
    IN IF tokens = <<>> \/ sherpaWords = <<>>
       THEN [timeline |-> <<>>, tokens |-> tokens, ops |-> <<>>]
       ELSE LET os == computeAlignmentOps(NormalizedOf(tokens), NormalizedOf(sherpaWords))
            IN [timeline |-> buildTimelineEntriesFromOps(tokens, sherpaWords, os),
                tokens |-> tokens,
                ops |-> os]

\* Bounds and input sets of the timeline calls
MaxTimelinePieces == 3
MaxSherpaWords == 2
\* "the", " cat", a blank and a full stop: up to one word per piece
TimelinePieces == {wThe, <<" ">> \o wCat, <<" ">>, <<".">>}
TimelineTexts == {Flatten(ps) : ps \in SeqsUpTo(TimelinePieces, MaxTimelinePieces)}
\* a SherpaWordTiming; normalized is not empty, as parseSherpaWordTimings leaves it
SherpaWordTiming(original, startTime, endTime) ==
    [original |-> original, normalized |-> normalizeWordForAlignment(original),
     startTime |-> startTime, endTime |-> endTime]
\* words that start within the start padding or after it, that last long, 0.05 s
\* or no time at all, that end before they start, and that lie before time 0
SherpaWordTimings ==
    {SherpaWordTiming(wThe, 0, 1300), SherpaWordTiming(wThe, 1000, 1000),
     SherpaWordTiming(wThe, -500, -400),
     SherpaWordTiming(wCat, 0, 50), SherpaWordTiming(wCat, 1000, 1300),
     SherpaWordTiming(wCat, 1000, 50)}

\* a caller hands a reference text and the recognized word timings over
TimelineCall ==
    /\ tlPc = "idle"
    /\ \E text \in TimelineTexts, words \in SeqsUpTo(SherpaWordTimings, MaxSherpaWords) :
          tlInput' = [referenceText |-> text, sherpaWords |-> words]
    /\ tlPc' = "running"
    /\ UNCHANGED <<tlResult, alignVars, asVars, scVars, shVars, egVars>>

\* buildWordTimelineFromSherpa runs to its return statement
TimelineReturn ==
    /\ tlPc = "running"
    /\ \E r \in {buildWordTimelineFromSherpa(tlInput.referenceText, tlInput.sherpaWords)} :
          tlResult' = r
    /\ tlPc' = "done"
    /\ UNCHANGED <<tlInput, alignVars, asVars, scVars, shVars, egVars>>

\* the caller is done with the result
TimelineReset ==
    /\ tlPc = "done"
    /\ tlPc' = "idle"
    /\ tlInput' = Idle
    /\ tlResult' = Idle
    /\ UNCHANGED <<alignVars, asVars, scVars, shVars, egVars>>

NextTimeline == TimelineCall \/ TimelineReturn \/ TimelineReset

-----------------------------------------------------------------------------
(* ScoringEngine: normalize, normalizeAndTokenize, alignSequence *)

\* /[.,?!;:"']/g
ScoringPunctuation == {".", ",", "?", "!", ";", ":", "\"", "'"}
AllChars ==
    Letters \cup Whitespace \cup Apostrophes \cup AlignmentPunctuation
            \cup ScoringPunctuation \cup CombiningMarks

\* replace(/[class]/g, " ")
BlankChars(text, class) ==
    [k \in 1..Len(text) |-> IF text[k] \in class THEN " " ELSE text[k]]

normalize(text) == trim(RemoveChars(toLowerCase(text), ScoringPunctuation))

\* split(/\s+/).filter(w => w.length > 0): the runs of non-whitespace characters
normalizeAndTokenize(text) ==
    Runs(BlankChars(toLowerCase(text), ScoringPunctuation), AllChars \ Whitespace)

AlItem(type, refIndex, recIndex) ==
    [type |-> type, refIndex |-> refIndex, recIndex |-> recIndex]

\* lines 210, 251: isMatch = ref[i - 1] === rec[j - 1].normalized (before it: the
\* tolerant comparison of the timeline aligner)
IsMatchRoughly(refWord, recNormalized) == tokensRoughlyMatch(refWord, recNormalized)
IsMatch(refWord, recNormalized) == refWord = recNormalized

\* line 211: the cost of pairing ref[i-1] with rec[j-1]
ExactCost(ref, rec, i, j) == IF IsMatch(ref[i], rec[j]) THEN 0 ELSE 1

\* lines 213-233: minCost starts at subCost and is lowered by delCost, insCost
SeqDpCell(up, left, diag, cost) ==
    LET delCost == up + 1
        insCost == left + 1
        subCost == diag + cost
        m1 == IF delCost < subCost THEN delCost ELSE subCost
    IN IF insCost < m1 THEN insCost ELSE m1

RECURSIVE SeqDpFillRow(_, _, _, _, _)
SeqDpFillRow(ref, rec, i, prev, cur) ==
    IF Len(cur) = Len(rec) + 1 THEN cur
    ELSE LET j == Len(cur)
             v == SeqDpCell(prev[j + 1], cur[j], prev[j], ExactCost(ref, rec, i, j))
         IN SeqDpFillRow(ref, rec, i, prev, Append(cur, v))

RECURSIVE SeqDpRows(_, _, _)
SeqDpRows(ref, rec, i) ==
    IF i = 0 THEN << [j \in 1..(Len(rec) + 1) |-> j - 1] >>
    ELSE LET rows == SeqDpRows(ref, rec, i - 1)
         IN Append(rows, SeqDpFillRow(ref, rec, i, rows[i], <<i>>))

\* lines 243-277: one iteration of the backtrack: the item pushed and the new i, j
SeqBacktrackStep(t, ref, rec, i, j) ==
    IF i > 0 /\ j > 0
    THEN LET currentCost == DpAt(t, i, j)
             isMatch == IsMatch(ref[i], rec[j])
             subCost == DpAt(t, i - 1, j - 1) + (IF isMatch THEN 0 ELSE 1)
             delCost == DpAt(t, i - 1, j) + 1
         IN IF currentCost = subCost
            THEN [item |-> AlItem(IF isMatch THEN "match" ELSE "substitution", i - 1, j - 1),
                  i |-> i - 1, j |-> j - 1]
            ELSE IF currentCost = delCost
            THEN [item |-> AlItem("deletion", i - 1, NoIndex), i |-> i - 1, j |-> j]
            ELSE [item |-> AlItem("insertion", NoIndex, j - 1), i |-> i, j |-> j - 1]
    ELSE IF i > 0
    THEN [item |-> AlItem("deletion", i - 1, NoIndex), i |-> i - 1, j |-> j]
    ELSE [item |-> AlItem("insertion", NoIndex, j - 1), i |-> i, j |-> j - 1]

RECURSIVE SeqBacktrackFrom(_, _, _, _, _, _)
SeqBacktrackFrom(t, ref, rec, i, j, acc) ==
    IF ~(i > 0 \/ j > 0) THEN acc
    ELSE LET st == SeqBacktrackStep(t, ref, rec, i, j)
         IN SeqBacktrackFrom(t, ref, rec, st.i, st.j, Append(acc, st.item))

\* ref: the reference words; rec: the normalized recognized words
alignSequence(ref, rec) ==
    Reverse(SeqBacktrackFrom(SeqDpRows(ref, rec, Len(ref)), ref, rec,
                             Len(ref), Len(rec), <<>>))

-----------------------------------------------------------------------------
(* ScoringEngine: computeLevenshtein, stringSimilarity, assess *)

\* lines 303-313: row i runs over b, column j over a
RECURSIVE CLevFillRow(_, _, _, _, _)
CLevFillRow(a, b, i, prev, cur) ==
    IF Len(cur) = Len(a) + 1 THEN cur
    ELSE LET j == Len(cur)
             v == IF b[i] = a[j] THEN prev[j]
                  ELSE Min2(prev[j] + 1, Min2(cur[j] + 1, prev[j + 1] + 1))
         IN CLevFillRow(a, b, i, prev, Append(cur, v))

RECURSIVE CLevRow(_, _, _)
CLevRow(a, b, i) ==
    IF i = 0 THEN [j \in 1..(Len(a) + 1) |-> j - 1]
    ELSE CLevFillRow(a, b, i, CLevRow(a, b, i - 1), <<i>>)

computeLevenshtein(a, b) ==
    IF Len(a) = 0 THEN Len(b)
    ELSE IF Len(b) = 0 THEN Len(a)
    ELSE CLevRow(a, b, Len(b))[Len(a) + 1]

\* Math.round(num / den) for den > 0: the nearest integer, halves upwards.
\* A NaN operand gives NaN, and so does 0 / 0.  (Before it: Math.floor.)
MathFloorDiv(num, den) ==
    IF num = NaN \/ den = NaN THEN NaN
    ELSE IF den = 0 THEN NaN
    ELSE num \div den
MathRoundDiv(num, den) ==
    IF num = NaN \/ den = NaN THEN NaN
    ELSE IF den = 0 THEN NaN
    ELSE (2 * num + den) \div (2 * den)

\* reduce((sum, w) => sum + w.score, 0): NaN once a term is NaN
JsSum(terms) ==
    IF \E k \in 1..Len(terms) : terms[k] = NaN THEN NaN ELSE SumSeq(terms)

\* stringSimilarity(a, b) as the fraction num / den
stringSimilarity(a, b) ==
    LET dist == computeLevenshtein(a, b)
        maxLen == Max2(Len(a), Len(b))
    IN IF maxLen = 0 THEN [num |-> 1, den |-> 1]
       ELSE [num |-> maxLen - dist, den |-> maxLen]

\* a recognized token without a confidence field
NoConfidence == -888888
DEFAULT_CONFIDENCE == 950
\* (before it: a missing confidence taken as 1.0)
MatchScoreCertainDefault(confidence) ==
    LET c == IF confidence = NoConfidence THEN 1000 ELSE confidence
    IN MathRoundDiv(IF c = NaN THEN NaN ELSE c * 100, 1000)
\* line 82: Math.round((recToken.confidence ?? 0.95) * 100), confidence in thousandths
MatchScore(confidence) ==
    LET c == IF confidence = NoConfidence THEN DEFAULT_CONFIDENCE ELSE confidence
    IN MathRoundDiv(IF c = NaN THEN NaN ELSE c * 100, 1000)

SUBSTITUTION_BASE == 40
SUBSTITUTION_SPAN == 20
\* (before it: graded by the distance, not by the similarity)
SubstitutionScoreOfDistance(refWord, recNormalized) ==
    LET sim == stringSimilarity(refWord, recNormalized)
    IN SUBSTITUTION_BASE + MathRoundDiv((sim.den - sim.num) * SUBSTITUTION_SPAN, sim.den)
\* line 99: 40 + Math.round(similarity * 20)
SubstitutionScore(refWord, recNormalized) ==
    LET sim == stringSimilarity(refWord, recNormalized)
    IN SUBSTITUTION_BASE + MathRoundDiv(sim.num * SUBSTITUTION_SPAN, sim.den)

NoTimestamps == [none |-> TRUE]
WordResult(word, status, score, timestamps) ==
    [word |-> word, status |-> status, score |-> score, timestamps |-> timestamps]

\* (before it: an insertion adds an entry for the extra recognized word)
DetailsOfItemKeepingInsertions(refWords, recWords, item) ==
    IF item.type = "match"
    THEN LET recToken == recWords[item.recIndex + 1]
         IN << WordResult(refWords[item.refIndex + 1], "correct",
                          MatchScore(recToken.confidence),
                          [start |-> recToken.start, end |-> recToken.end]) >>
    ELSE IF item.type = "substitution"
    THEN LET recToken == recWords[item.recIndex + 1]
         IN << WordResult(refWords[item.refIndex + 1], "mispronounced",
                          SubstitutionScore(refWords[item.refIndex + 1], recToken.normalized),
                          [start |-> recToken.start, end |-> recToken.end]) >>
    ELSE IF item.type = "deletion"
    THEN << WordResult(refWords[item.refIndex + 1], "omitted", 0, NoTimestamps) >>
    ELSE LET recToken == recWords[item.recIndex + 1]
         IN << WordResult(recToken.normalized, "mispronounced", 0,
                          [start |-> recToken.start, end |-> recToken.end]) >>

\* lines 76-123: the details entries one alignment item adds (none for an insertion)
DetailsOfItem(refWords, recWords, item) ==
    IF item.type = "match"
    THEN LET recToken == recWords[item.recIndex + 1]
         IN << WordResult(refWords[item.refIndex + 1], "correct",
                          MatchScore(recToken.confidence),
                          [start |-> recToken.start, end |-> recToken.end]) >>
    ELSE IF item.type = "substitution"
    THEN LET recToken == recWords[item.recIndex + 1]
         IN << WordResult(refWords[item.refIndex + 1], "mispronounced",
                          SubstitutionScore(refWords[item.refIndex + 1], recToken.normalized),
                          [start |-> recToken.start, end |-> recToken.end]) >>
    ELSE IF item.type = "deletion"
    THEN << WordResult(refWords[item.refIndex + 1], "omitted", 0, NoTimestamps) >>
    ELSE <<>>

\* (before it: a substitution counted as well)
IsPairedAlItem(item) == item.type \in {"match", "substitution"}
IsMatchItem(item) == item.type = "match"

PAUSE_THRESHOLD == 500
PAUSE_PENALTY == 5
\* (before it: a gap of exactly the threshold counted as a pause)
CountPausesFromThreshold(recognizedTokens) ==
    Cardinality({i \in 2..Len(recognizedTokens) :
        recognizedTokens[i].start - recognizedTokens[i - 1].end >= PAUSE_THRESHOLD})
\* lines 126-132
CountPauses(recognizedTokens) ==
    Cardinality({i \in 2..Len(recognizedTokens) :
        recognizedTokens[i].start - recognizedTokens[i - 1].end > PAUSE_THRESHOLD})

\* line 149-151: Math.round(pron * 0.5 + integrity * 0.3 + fluency * 0.2)
\* (before it: the weights of pronunciation and integrity exchanged)
OverallOfSwappedWeights(pronunciationScore, integrityScore, fluencyScore) ==
    IF pronunciationScore = NaN \/ integrityScore = NaN \/ fluencyScore = NaN THEN NaN
    ELSE MathRoundDiv(3 * pronunciationScore + 5 * integrityScore + 2 * fluencyScore, 10)
OverallOfUnweighted(pronunciationScore, integrityScore, fluencyScore) ==
    IF pronunciationScore = NaN \/ integrityScore = NaN \/ fluencyScore = NaN THEN NaN
    ELSE MathRoundDiv(pronunciationScore + integrityScore + fluencyScore, 3)
OverallOf(pronunciationScore, integrityScore, fluencyScore) ==
    IF pronunciationScore = NaN \/ integrityScore = NaN \/ fluencyScore = NaN THEN NaN
    ELSE MathRoundDiv(5 * pronunciationScore + 3 * integrityScore + 2 * fluencyScore, 10)

Report(overall, fluency, integrity, pronunciation, details) ==
    [overallScore |-> overall, fluencyScore |-> fluency, integrityScore |-> integrity,
     pronunciationScore |-> pronunciation, details |-> details]

emptyReport == Report(0, 0, 0, 0, <<>>)

\* (before it: the mean taken over the words that were spoken only)
ScoredReportMeanOfSpoken(refWords, recWords, recognizedTokens, alignment) ==
    LET details == Flatten([k \in 1..Len(alignment) |->
                               DetailsOfItem(refWords, recWords, alignment[k])])
        spoken == Cardinality({k \in 1..Len(details) : details[k].status # "omitted"})
        matchCount == Len(SelectSeq(alignment, IsMatchItem))
        fluencyScore == Max2(0, 100 - CountPauses(recognizedTokens) * PAUSE_PENALTY)
        totalWordScore == JsSum([k \in 1..Len(details) |-> details[k].score])
        pronunciationScore == MathRoundDiv(totalWordScore, Max2(1, spoken))
        integrityScore == MathRoundDiv(matchCount * 100, Len(refWords))
    IN Report(OverallOf(pronunciationScore, integrityScore, fluencyScore),
              fluencyScore, integrityScore, pronunciationScore, details)

\* lines 67-159
ScoredReport(refWords, recWords, recognizedTokens, alignment) ==
    LET details == Flatten([k \in 1..Len(alignment) |->
                               DetailsOfItem(refWords, recWords, alignment[k])])
        matchCount == Len(SelectSeq(alignment, IsMatchItem))
        refCount == Len(refWords)
        pauses == CountPauses(recognizedTokens)
        fluencyScore == Max2(0, 100 - pauses * PAUSE_PENALTY)
        totalWordScore == JsSum([k \in 1..Len(details) |-> details[k].score])
        pronunciationScore == MathRoundDiv(totalWordScore, Max2(1, Len(details)))
        integrityScore == MathRoundDiv(matchCount * 100, refCount)
    IN Report(OverallOf(pronunciationScore, integrityScore, fluencyScore),
              fluencyScore, integrityScore, pronunciationScore, details)

\* lines 52-65: every reference word omitted, every score 0 (before it: the same
\* case left to the alignment and the aggregate formulas)
AllOmittedByFormulas(refWords) ==
    ScoredReport(refWords, <<>>, <<>>, alignSequence(refWords, <<>>))
AllOmittedReport(refWords) ==
    Report(0, 0, 0, 0,
           [k \in 1..Len(refWords) |-> WordResult(refWords[k], "omitted", 0, NoTimestamps)])

NoTrace == [path |-> "empty", refWords |-> <<>>, recNormalized |-> <<>>, alignment |-> <<>>]

\* lines 37-160: the report, and what the call computed on its way
assess(referenceText, recognizedTokens) ==
    IF referenceText = <<>> \/ trim(referenceText) = <<>>
    THEN [report |-> emptyReport, trace |-> NoTrace]
    ELSE LET refWords == normalizeAndTokenize(referenceText)
             recWords == [k \in 1..Len(recognizedTokens) |->
                             [normalized |-> normalize(recognizedTokens[k].text),
                              start |-> recognizedTokens[k].start,
                              end |-> recognizedTokens[k].end,
                              confidence |-> recognizedTokens[k].confidence]]
             recNormalized == [k \in 1..Len(recWords) |-> recWords[k].normalized]
         IN IF Len(recWords) = 0
            THEN [report |-> AllOmittedReport(refWords),
                  trace |-> [path |-> "all-omitted", refWords |-> refWords,
                             recNormalized |-> <<>>, alignment |-> <<>>]]
            ELSE LET alignment == alignSequence(refWords, recNormalized)
                 IN [report |-> ScoredReport(refWords, recWords, recognizedTokens, alignment),
                     trace |-> [path |-> "aligned", refWords |-> refWords,
                                recNormalized |-> recNormalized, alignment |-> alignment]]

\* Bounds and input sets of the assess calls
MaxRefWords == 3
MaxRecognized == 3
RefVocab == {wThe, wCat, wSat}

RECURSIVE Join(_, _)
Join(ws, sep) ==
    IF ws = <<>> THEN <<>>
    ELSE IF Len(ws) = 1 THEN ws[1]
    ELSE ws[1] \o sep \o Join(Tail(ws), sep)

UpperChar(c) ==
    CASE c = "a" -> "A" [] c = "c" -> "C" [] c = "e" -> "E" [] c = "h" -> "H"
      [] c = "k" -> "K" [] c = "s" -> "S" [] c = "t" -> "T" [] OTHER -> c
Capitalized(text) ==
    IF text = <<>> THEN <<>> ELSE <<UpperChar(text[1])>> \o Tail(text)

\* "the cat sat", "The, cat, sat!", and for no words "" and "!"; and a blank text
PlainText(ws) == Join(ws, <<" ">>)
PunctuatedText(ws) == Capitalized(Join(ws, <<",", " ">>)) \o <<"!">>
AssessTexts ==
    {PlainText(ws) : ws \in SeqsUpTo(RefVocab, MaxRefWords)}
        \cup {PunctuatedText(ws) : ws \in SeqsUpTo(RefVocab, MaxRefWords)}
        \cup {<<" ", " ">>}

\* What the recognizer may say: a word, its confidence (thousandths, or none), the
\* silence before it and its duration (ms).  The silences are none, exactly the
\* pause threshold, and more than it.
Utterances ==
    {[text |-> wThe, confidence |-> 900, gap |-> 0, duration |-> 300],
     [text |-> wCat, confidence |-> 900, gap |-> 0, duration |-> 300],
     [text |-> wSat, confidence |-> 900, gap |-> 0, duration |-> 300],
     [text |-> wKat, confidence |-> 800, gap |-> 500, duration |-> 500],
     [text |-> <<"T", "h", "e", ",">>, confidence |-> NoConfidence, gap |-> 600,
      duration |-> 300]}

\* The SherpaToken list of the utterances, spoken one after another from time `from`.
RECURSIVE TokensOf(_, _)
TokensOf(us, from) ==
    IF us = <<>> THEN <<>>
    ELSE LET start == from + us[1].gap
             end == start + us[1].duration
         IN << [text |-> us[1].text, start |-> start, end |-> end,
                confidence |-> us[1].confidence] >> \o TokensOf(Tail(us), end)

\* a caller hands a reference text and the recognizer's tokens to assess
AssessCall ==
    /\ asPc = "idle"
    /\ \E text \in AssessTexts, us \in SeqsUpTo(Utterances, MaxRecognized) :
          asInput' = [referenceText |-> text, recognizedTokens |-> TokensOf(us, 0)]
    /\ asPc' = "running"
    /\ UNCHANGED <<asTrace, asReport, alignVars, tlVars, scVars, shVars, egVars>>

\* assess runs to its return statement
AssessReturn ==
    /\ asPc = "running"
    /\ \E r \in {assess(asInput.referenceText, asInput.recognizedTokens)} :
          /\ asTrace' = r.trace
          /\ asReport' = r.report
    /\ asPc' = "done"
    /\ UNCHANGED <<asInput, alignVars, tlVars, scVars, shVars, egVars>>

\* the caller is done with the report
AssessReset ==
    /\ asPc = "done"
    /\ asPc' = "idle"
    /\ asInput' = Idle
    /\ asTrace' = Idle
    /\ asReport' = Idle
    /\ UNCHANGED <<alignVars, tlVars, scVars, shVars, egVars>>

NextAssess == AssessCall \/ AssessReturn \/ AssessReset

\* What a recognizer may hand over besides words: a token that is only punctuation,
\* and a confidence that is not a number.
MaxRawTokens == 2
RawTexts == {wCat, PlainText(<<wThe, wCat>>), PunctuatedText(<<wThe, wCat>>)}
RawUtterances ==
    {[text |-> wThe, confidence |-> 900, gap |-> 0, duration |-> 300],
     [text |-> wCat, confidence |-> 900, gap |-> 0, duration |-> 300],
     [text |-> <<"!">>, confidence |-> NoConfidence, gap |-> 0, duration |-> 300],
     [text |-> wCat, confidence |-> NaN, gap |-> 0, duration |-> 300]}

\* a caller hands the recognizer's tokens to assess as they came
AssessRawCall ==
    /\ asPc = "idle"
    /\ \E text \in RawTexts, us \in SeqsUpTo(RawUtterances, MaxRawTokens) :
          asInput' = [referenceText |-> text, recognizedTokens |-> TokensOf(us, 0)]
    /\ asPc' = "running"
    /\ UNCHANGED <<asTrace, asReport, alignVars, tlVars, scVars, shVars, egVars>>

NextAssessRaw == AssessRawCall \/ AssessReturn \/ AssessReset

-----------------------------------------------------------------------------
(* TransformersScoringService.score *)

\* /[^a-z0-9\s]/g removes every character that is not kept here
TransformersKeptChars == LowerLetters \cup Whitespace

\* replace(/\s+/g, " ").trim(): the runs of non-whitespace joined by one blank
CollapseWhitespace(text) == Join(Runs(text, AllChars \ Whitespace), <<" ">>)

\* lines 143-149
TransformersNormalize(text) ==
    trim(CollapseWhitespace(RemoveChars(toLowerCase(text), AllChars \ TransformersKeptChars)))

\* lines 89-136: the four scores for a reference text and the recognized text;
\* the distance of fastest-levenshtein is the edit distance between the two strings
TransformersScore(referenceText, outputText) ==
    LET recognizedText == trim(outputText)
        normRef == TransformersNormalize(referenceText)
        normRec == TransformersNormalize(recognizedText)
    IN IF Len(normRef) > 0 \/ Len(normRec) > 0
       THEN LET dist == levenshteinDistance(normRef, normRec)
                maxLen == Max2(Max2(Len(normRef), Len(normRec)), 1)
                accuracy == Max2(0, MathRoundDiv((maxLen - dist) * 100, maxLen))
                refLen == IF Len(normRef) = 0 THEN 1 ELSE Len(normRef)
                completeness == MathRoundDiv(Min2(refLen, Len(normRec)) * 100, refLen)
                fluency == IF 10 * Len(normRec) > 12 * Len(normRef)
                           THEN Max2(0, accuracy - 10)
                           ELSE Min2(100, accuracy + 5)
            IN [score |-> MathRoundDiv(6 * accuracy + 2 * completeness + 2 * fluency, 10),
                accuracy |-> accuracy, completeness |-> completeness, fluency |-> fluency]
       ELSE [score |-> 100, accuracy |-> 100, completeness |-> 100, fluency |-> 100]

-----------------------------------------------------------------------------
(* use-pronunciation-assessments: tokenize, alignTokens, assessBySherpaWasm,
   assessByWhisperLocal *)

AsciiLetters == LowerLetters \cup UpperLetters

\* the longest prefix of the text made of characters of the class
RECURSIVE TakeWhile(_, _)
TakeWhile(text, class) ==
    IF text # <<>> /\ text[1] \in class
    THEN <<text[1]>> \o TakeWhile(Tail(text), class)
    ELSE <<>>

\* the matches of /[A-Za-z]+(?:'[A-Za-z]+)?/g, left to right
RECURSIVE WordMatches(_)
WordMatches(text) ==
    IF text = <<>> THEN <<>>
    ELSE IF text[1] \notin AsciiLetters THEN WordMatches(Tail(text))
    ELSE LET head == TakeWhile(text, AsciiLetters)
             rest == SubSeq(text, Len(head) + 1, Len(text))
             suffix == IF rest # <<>> /\ rest[1] = "'"
                       THEN TakeWhile(Tail(rest), AsciiLetters)
                       ELSE <<>>
             word == IF suffix = <<>> THEN head ELSE head \o <<"'">> \o suffix
         IN <<word>> \o WordMatches(SubSeq(text, Len(word) + 1, Len(text)))

\* lines 429-434
tokenize(text) ==
    LET matches == WordMatches(text)
    IN SelectSeq([k \in 1..Len(matches) |-> trim(matches[k])], LAMBDA w : w # <<>>)

normalizeToken(token) == toLowerCase(token)

\* an op of alignTokens; an absent ref or hyp is the empty word
TokenOp(type, ref, hyp, hypIndex) ==
    [type |-> type, ref |-> ref, hyp |-> hyp, hypIndex |-> hypIndex]

RECURSIVE TokenDpFillRow(_, _, _, _, _)
TokenDpFillRow(ref, hyp, i, prev, cur) ==
    IF Len(cur) = Len(hyp) + 1 THEN cur
    ELSE LET j == Len(cur)
             cost == IF normalizeToken(ref[i]) = normalizeToken(hyp[j]) THEN 0 ELSE 1
             v == Min3(prev[j + 1] + 1, cur[j] + 1, prev[j] + cost)
         IN TokenDpFillRow(ref, hyp, i, prev, Append(cur, v))

RECURSIVE TokenDpRows(_, _, _)
TokenDpRows(ref, hyp, i) ==
    IF i = 0 THEN << [j \in 1..(Len(hyp) + 1) |-> j - 1] >>
    ELSE LET rows == TokenDpRows(ref, hyp, i - 1)
         IN Append(rows, TokenDpFillRow(ref, hyp, i, rows[i], <<i>>))

\* lines 471-495: one iteration of the while loop
TokenBacktraceStep(t, ref, hyp, i, j) ==
    IF i > 0 /\ DpAt(t, i, j) = DpAt(t, i - 1, j) + 1
    THEN [op |-> TokenOp("delete", ref[i], <<>>, NoIndex), i |-> i - 1, j |-> j]
    ELSE IF j > 0 /\ DpAt(t, i, j) = DpAt(t, i, j - 1) + 1
    THEN [op |-> TokenOp("insert", <<>>, hyp[j], j - 1), i |-> i, j |-> j - 1]
    ELSE [op |-> TokenOp(IF normalizeToken(ref[i]) = normalizeToken(hyp[j])
                         THEN "equal" ELSE "replace", ref[i], hyp[j], j - 1),
          i |-> i - 1, j |-> j - 1]

RECURSIVE TokenBacktraceFrom(_, _, _, _, _, _)
TokenBacktraceFrom(t, ref, hyp, i, j, acc) ==
    IF ~(i > 0 \/ j > 0) THEN acc
    ELSE LET st == TokenBacktraceStep(t, ref, hyp, i, j)
         IN TokenBacktraceFrom(t, ref, hyp, st.i, st.j, Append(acc, st.op))

\* lines 444-498
alignTokens(refTokens_, hypTokens_) ==
    Reverse(TokenBacktraceFrom(TokenDpRows(refTokens_, hypTokens_, Len(refTokens_)),
                               refTokens_, hypTokens_,
                               Len(refTokens_), Len(hypTokens_), <<>>))

\* lines 530-546: each word of each timeline entry, with the entry's offset and
\* duration in ticks of 100 ns (times in ms)
TICKS_PER_MS == 10000
HypothesisItemsOf(entry) ==
    LET tokens == tokenize(entry.text)
    IN [k \in 1..Len(tokens) |->
           [token |-> tokens[k],
            offset |-> Max2(0, entry.startTime * TICKS_PER_MS),
            duration |-> Max2(0, (entry.endTime - entry.startTime) * TICKS_PER_MS)]]
extractHypothesisWordTimeline(timeline) ==
    Flatten([k \in 1..Len(timeline) |-> HypothesisItemsOf(timeline[k])])

\* a score that is not rounded: the exact quotient num / den
Quotient(num, den) == [num |-> num, den |-> den]
\* line 549: Math.max(0, Math.min(100, n))
clampScore(q) == Quotient(Max2(0, Min2(100 * q.den, q.num)), q.den)

OpsOfType(os, type) == Cardinality({k \in 1..Len(os) : os[k].type = type})

\* no duration given (undefined or 0)
NoDuration == 0
SPEECH_RATE == 3

\* lines 580-649 and 724-793: the scores from the reference, the recognizer's
\* transcript, the word timeline of the aligned transcript, and the duration (ms)
AssessByAlignment(reference, transcript, timeline, durationMs) ==
    LET hypTimeline == extractHypothesisWordTimeline(timeline)
        hypWords == [k \in 1..Len(hypTimeline) |-> hypTimeline[k].token]
        refWords == tokenize(IF reference # <<>> THEN reference ELSE transcript)
        os == alignTokens(refWords, hypWords)
        substitutions == OpsOfType(os, "replace")
        deletions == OpsOfType(os, "delete")
        insertions == OpsOfType(os, "insert")
        matches == OpsOfType(os, "equal")
        n == Max2(1, Len(refWords))
        fluency == IF durationMs # NoDuration
                   THEN Quotient(Min2(SPEECH_RATE * durationMs, 1000 * Len(hypWords)) * 100,
                                 SPEECH_RATE * durationMs)
                   ELSE Quotient(matches * 100, n)
    IN [pronunciationScore |->
            clampScore(Quotient((n - (substitutions + deletions + insertions)) * 100, n)),
        accuracyScore |-> clampScore(Quotient(matches * 100, n)),
        completenessScore |-> clampScore(Quotient((n - deletions) * 100, n)),
        fluencyScore |-> clampScore(fluency),
        ops |-> os]

assessBySherpaWasm(reference, transcript, timeline, durationMs) ==
    AssessByAlignment(reference, transcript, timeline, durationMs)
assessByWhisperLocal(reference, transcript, timeline, durationMs) ==
    AssessByAlignment(reference, transcript, timeline, durationMs)

\* Bounds and input sets of the scorer calls
MaxTimelineEntries == 2
ScorerTexts ==
    {<<>>, wCat, <<"T", "h", "e", " ", "c", "a", "t", ".">>,
     <<"c", "a", "t", "'", "s">>, <<" ">>}
HypothesisEntries ==
    {[text |-> wThe, startTime |-> 0, endTime |-> 300],
     [text |-> wCat, startTime |-> 300, endTime |-> 600],
     [text |-> <<"t", "h", "e", " ", "c", "a", "t">>, startTime |-> 0, endTime |-> 600]}
Durations == {NoDuration, 600}

TransformersScoreCall ==
    /\ scPc = "idle"
    /\ \E referenceText \in ScorerTexts, outputText \in ScorerTexts :
          /\ scInput' = [scorer |-> "transformers", reference |-> referenceText,
                         transcript |-> outputText]
          /\ scResult' = TransformersScore(referenceText, outputText)
    /\ scPc' = "done"
    /\ UNCHANGED <<alignVars, tlVars, asVars, shVars, egVars>>

SherpaWasmAssessCall ==
    /\ scPc = "idle"
    /\ \E reference \in ScorerTexts, transcript \in ScorerTexts,
          timeline \in SeqsUpTo(HypothesisEntries, MaxTimelineEntries),
          durationMs \in Durations :
          /\ scInput' = [scorer |-> "sherpa_wasm", reference |-> reference,
                         transcript |-> transcript, timeline |-> timeline,
                         durationMs |-> durationMs]
          /\ scResult' = assessBySherpaWasm(reference, transcript, timeline, durationMs)
    /\ scPc' = "done"
    /\ UNCHANGED <<alignVars, tlVars, asVars, shVars, egVars>>

WhisperLocalAssessCall ==
    /\ scPc = "idle"
    /\ \E reference \in ScorerTexts, transcript \in ScorerTexts,
          timeline \in SeqsUpTo(HypothesisEntries, MaxTimelineEntries),
          durationMs \in Durations :
          /\ scInput' = [scorer |-> "whisper_local", reference |-> reference,
                         transcript |-> transcript, timeline |-> timeline,
                         durationMs |-> durationMs]
          /\ scResult' = assessByWhisperLocal(reference, transcript, timeline, durationMs)
    /\ scPc' = "done"
    /\ UNCHANGED <<alignVars, tlVars, asVars, shVars, egVars>>

\* the caller is done with the scores
ScorerReset ==
    /\ scPc = "done"
    /\ scPc' = "idle"
    /\ scInput' = Idle
    /\ scResult' = Idle
    /\ UNCHANGED <<alignVars, tlVars, asVars, shVars, egVars>>

\* the same lower-case words handed to the aligner of ScoringEngine.assess and to
\* the aligner of the assessment hook
AlignBothCall ==
    /\ scPc = "idle"
    /\ \E ref \in SeqsUpTo(RefVocab, MaxRefLen), hyp \in SeqsUpTo(RefVocab, MaxHypLen) :
          /\ scInput' = [scorer |-> "aligners", reference |-> ref, transcript |-> hyp]
          /\ scResult' = [alignSequence |-> alignSequence(ref, hyp),
                          alignTokens |-> alignTokens(ref, hyp)]
    /\ scPc' = "done"
    /\ UNCHANGED <<alignVars, tlVars, asVars, shVars, egVars>>

NextAligners == AlignBothCall \/ ScorerReset

NextScorers ==
    \/ TransformersScoreCall
    \/ SherpaWasmAssessCall
    \/ WhisperLocalAssessCall
    \/ ScorerReset

-----------------------------------------------------------------------------
(* sherpa-wasm.ts (client) and sherpa-asr-classic.js (worker): initialization *)

MaxInitCalls == 4

\* module state of both files when they are loaded; what makes init fail is there
SherpaIdle ==
    /\ shInited = FALSE
    /\ shInitPromise = "none"
    /\ shCalls = 0
    /\ shRejected = 0
    /\ toWorker = <<>>
    /\ toClient = <<>>
    /\ wkInitPromise = "none"
    /\ wkAwaiting = 0
    /\ wkInitRuns = 0
    /\ causePresent = TRUE

\* sherpa-wasm.ts lines 99-130: return if inited, return the pending promise if
\* there is one, else make the promise and post "init" to the worker
initSherpaWasm ==
    /\ shCalls < MaxInitCalls
    /\ shCalls' = shCalls + 1
    /\ IF shInited \/ shInitPromise = "pending"
       THEN UNCHANGED <<shInitPromise, toWorker>>
       ELSE /\ shInitPromise' = "pending"
            /\ toWorker' = Append(toWorker, "init")
    /\ UNCHANGED <<shInited, shRejected, toClient, wkInitPromise, wkAwaiting, wkInitRuns,
                   causePresent, alignVars, tlVars, asVars, scVars, egVars>>

\* sherpa-asr-classic.js lines 225-230: the handler of an "init" message starts
\* init(payload) unless initPromise is set, then waits for initPromise
WorkerOnInitMessage ==
    /\ toWorker # <<>>
    /\ toWorker' = Tail(toWorker)
    /\ IF wkInitPromise = "none"
       THEN wkInitPromise' = "pending" /\ wkInitRuns' = wkInitRuns + 1
       ELSE UNCHANGED <<wkInitPromise, wkInitRuns>>
    /\ wkAwaiting' = wkAwaiting + 1
    /\ UNCHANGED <<shInited, shInitPromise, shCalls, shRejected, toClient, causePresent,
                   alignVars, tlVars, asVars, scVars, egVars>>

\* sherpa-asr-classic.js lines 25-184: init(payload) ends; it throws when a fetch or
\* the recognizer's construction fails
WorkerInitSettles ==
    /\ wkInitPromise = "pending"
    /\ wkInitPromise' = IF causePresent THEN "rejected" ELSE "fulfilled"
    /\ UNCHANGED <<shInited, shInitPromise, shCalls, shRejected, toWorker, toClient,
                   wkAwaiting, wkInitRuns, causePresent,
                   alignVars, tlVars, asVars, scVars, egVars>>

\* sherpa-asr-classic.js lines 230-232 and 249-251: a waiting handler goes on and
\* replies "inited", or catches the rejection and replies an error without id
WorkerInitReplies ==
    /\ wkAwaiting > 0
    /\ wkInitPromise \in {"fulfilled", "rejected"}
    /\ wkAwaiting' = wkAwaiting - 1
    /\ toClient' = Append(toClient, IF wkInitPromise = "fulfilled" THEN "inited" ELSE "error")
    /\ UNCHANGED <<shInited, shInitPromise, shCalls, shRejected, toWorker, wkInitPromise,
                   wkInitRuns, causePresent, alignVars, tlVars, asVars, scVars, egVars>>

\* sherpa-wasm.ts lines 56-63 and 76-93: worker.onmessage for "inited" and for an
\* error without id
ClientOnInitReply ==
    /\ toClient # <<>>
    /\ toClient' = Tail(toClient)
    /\ IF Head(toClient) = "inited"
       THEN shInited' = TRUE /\ UNCHANGED shRejected
       ELSE /\ shRejected' = IF shInitPromise = "pending" THEN shRejected + 1 ELSE shRejected
            /\ UNCHANGED shInited
    /\ shInitPromise' = "none"
    /\ UNCHANGED <<shCalls, toWorker, wkInitPromise, wkAwaiting, wkInitRuns, causePresent,
                   alignVars, tlVars, asVars, scVars, egVars>>

\* what makes init fail comes or goes (a model file stops or starts being fetchable)
CauseChanges ==
    /\ causePresent' = ~causePresent
    /\ UNCHANGED <<shInited, shInitPromise, shCalls, shRejected, toWorker, toClient,
                   wkInitPromise, wkAwaiting, wkInitRuns,
                   alignVars, tlVars, asVars, scVars, egVars>>

NextSherpa ==
    \/ initSherpaWasm
    \/ WorkerOnInitMessage
    \/ WorkerInitSettles
    \/ WorkerInitReplies
    \/ ClientOnInitReply
    \/ CauseChanges

-----------------------------------------------------------------------------
(* echogarden.ts: EchogardenWrapper.recognize, align, alignSegments *)

MaxWrapperCalls == 2
WrapperFunctions == {"recognize", "align", "alignSegments"}

\* Promise resolve/reject: only a pending promise settles
Settle(promise, outcome) == IF promise = "pending" THEN outcome ELSE promise

\* lines 260-277, 359-371, 382-394: the call makes its promise, registers its
\* "unhandledRejection" handler and starts the Echogarden function
WrapperCall ==
    /\ Len(egCalls) < MaxWrapperCalls
    /\ \E function \in WrapperFunctions :
          egCalls' = Append(egCalls, [function |-> function, promise |-> "pending",
                                      inner |-> "pending"])
    /\ egListeners' = egListeners \cup {Len(egCalls) + 1}
    /\ UNCHANGED <<alignVars, tlVars, asVars, scVars, shVars>>

\* lines 351-355, 374-378, 397-401: .then: the handler is removed, the call resolves
InnerResolves ==
    /\ \E k \in 1..Len(egCalls) :
          /\ egCalls[k].inner = "pending"
          /\ egCalls' = [egCalls EXCEPT ![k].inner = "resolved",
                                        ![k].promise = Settle(@, "resolved")]
          /\ egListeners' = egListeners \ {k}
    /\ UNCHANGED <<alignVars, tlVars, asVars, scVars, shVars>>

\* lines 356, 379, 402: .catch(reject): the call rejects
InnerRejects ==
    /\ \E k \in 1..Len(egCalls) :
          /\ egCalls[k].inner = "pending"
          /\ egCalls' = [egCalls EXCEPT ![k].inner = "rejected",
                                        ![k].promise = Settle(@, "rejected")]
    /\ UNCHANGED <<egListeners, alignVars, tlVars, asVars, scVars, shVars>>

\* lines 265-269, 364-368, 387-391: the process emits "unhandledRejection"; every
\* registered handler removes itself and rejects its call
UnhandledRejection ==
    /\ egListeners # {}
    /\ egCalls' = [k \in 1..Len(egCalls) |->
                      IF k \in egListeners
                      THEN [egCalls[k] EXCEPT !.promise = Settle(@, "rejected")]
                      ELSE egCalls[k]]
    /\ egListeners' = {}
    /\ UNCHANGED <<alignVars, tlVars, asVars, scVars, shVars>>

NextWrapper ==
    \/ WrapperCall
    \/ InnerResolves
    \/ InnerRejects
    \/ UnhandledRejection

Init ==
    /\ AlignIdle
    /\ tlPc = "idle" /\ tlInput = Idle /\ tlResult = Idle
    /\ asPc = "idle" /\ asInput = Idle /\ asTrace = Idle /\ asReport = Idle
    /\ scPc = "idle" /\ scInput = Idle /\ scResult = Idle
    /\ SherpaIdle
    /\ egCalls = <<>> /\ egListeners = {}

NextAlign ==
    \/ AlignCall
    \/ BacktraceDelete
    \/ BacktraceInsert
    \/ BacktraceDiagonal
    \/ AlignReturn
    \/ AlignReset

SpecAlign == Init /\ [][NextAlign]_vars

SpecTimeline == Init /\ [][NextTimeline]_vars

SpecAssess == Init /\ [][NextAssess]_vars

SpecAssessRaw == Init /\ [][NextAssessRaw]_vars

SpecScorers == Init /\ [][NextScorers]_vars

SpecAligners == Init /\ [][NextAligners]_vars

SpecSherpa == Init /\ [][NextSherpa]_vars

SpecWrapper == Init /\ [][NextWrapper]_vars

-----------------------------------------------------------------------------
(* Properties of computeAlignmentOps *)

\* Edit distance and edit cost as defined on the words themselves, not by the tables.
RECURSIVE EditDistance(_, _)
EditDistance(a, b) ==
    IF a = <<>> THEN Len(b)
    ELSE IF b = <<>> THEN Len(a)
    ELSE IF a[1] = b[1] THEN EditDistance(Tail(a), Tail(b))
    ELSE 1 + Min3(EditDistance(Tail(a), b), EditDistance(a, Tail(b)),
                  EditDistance(Tail(a), Tail(b)))

ModelWords == {wThe, wCat, wSat, wKat, wCats}

\* The pairs of words that are identical or whose edit distance over the longer
\* length is at most 0.45.
RoughPairs ==
    {p \in ModelWords \X ModelWords :
        p[1] = p[2] \/ 100 * EditDistance(p[1], p[2]) <= 45 * Max2(Len(p[1]), Len(p[2]))}

WithinRoughRatio(a, b) == <<a, b>> \in RoughPairs

RECURSIVE MinEditCost(_, _)
MinEditCost(ref, hyp) ==
    IF ref = <<>> THEN Len(hyp)
    ELSE IF hyp = <<>> THEN Len(ref)
    ELSE Min3(MinEditCost(Tail(ref), hyp) + 1,
              MinEditCost(ref, Tail(hyp)) + 1,
              MinEditCost(Tail(ref), Tail(hyp))
                + (IF WithinRoughRatio(ref[1], hyp[1]) THEN 0 ELSE 1))

ConsumesRef(op) == op.type \in {"equal", "replace", "delete"}
ConsumesHyp(op) == op.type \in {"equal", "replace", "insert"}
IsCostly(op) == op.type # "equal"

RefIndexSeq(os) ==
    LET sel == SelectSeq(os, ConsumesRef) IN [k \in 1..Len(sel) |-> sel[k].refIndex]
HypIndexSeq(os) ==
    LET sel == SelectSeq(os, ConsumesHyp) IN [k \in 1..Len(sel) |-> sel[k].hypIndex]
OpsCost(os) == Len(SelectSeq(os, IsCostly))
UpTo0(n) == [k \in 1..n |-> k - 1]

\* C2: the returned ops carry the reference indices 0..n-1 and the hypothesis
\* indices 0..m-1, each exactly once and in increasing order.
C2_AlignmentCoversBothSides ==
    alignPc = "done" =>
        /\ RefIndexSeq(ops) = UpTo0(Len(refTokens))
        /\ HypIndexSeq(ops) = UpTo0(Len(hypTokens))

C2_Witness ==
    /\ alignPc = "done"
    /\ Len(refTokens) >= 2
    /\ Len(hypTokens) >= 2
    /\ \E k \in 1..Len(ops) : ops[k].type = "delete"
    /\ \E k \in 1..Len(ops) : ops[k].type = "insert"
    /\ \E k \in 1..Len(ops) : ops[k].type \in {"equal", "replace"}

\* C3: the cost of the returned ops (replace, delete, insert 1 each, equal 0) is
\* dp[n][m], which is the minimum edit cost under the rough-match substitution cost.
C3_OpsCostIsMinimal ==
    alignPc = "done" =>
        /\ OpsCost(ops) = DpAt(dp, Len(refTokens), Len(hypTokens))
        /\ OpsCost(ops) = MinEditCost(refTokens, hypTokens)

C3_Witness ==
    /\ alignPc = "done"
    /\ OpsCost(ops) >= 2
    /\ \E k \in 1..Len(ops) : ops[k].type = "equal"
    /\ \E k \in 1..Len(ops) : ops[k].type = "replace"

RemoveAt(s, k) == [x \in 1..(Len(s) - 1) |-> IF x < k THEN s[x] ELSE s[x + 1]]
PairwiseDistinct(s) == \A a, b \in 1..Len(s) : a # b => s[a] # s[b]
NoRoughTwins(s) == \A a, b \in 1..Len(s) : a # b => ~WithinRoughRatio(s[a], s[b])
LeavesOneOut(ref, hyp, k) ==
    /\ PairwiseDistinct(ref)
    /\ k \in 1..Len(ref)
    /\ hyp = RemoveAt(ref, k)

\* equal ops around a single delete of reference token k (1-based)
OneDeletionAt(n, k) ==
    [x \in 1..n |-> IF x < k THEN OpEqual(x - 1, x - 1)
                    ELSE IF x = k THEN OpDelete(k - 1)
                    ELSE OpEqual(x - 1, x - 2)]

\* C7 as claimed: with pairwise-distinct reference tokens and one of them removed
\* from the hypothesis, the single delete op is the removed token's, all else equal.
C7_DeleteIsTheRemovedToken ==
    alignPc = "done" =>
        \A k \in 1..Len(refTokens) :
            LeavesOneOut(refTokens, hypTokens, k) =>
                ops = OneDeletionAt(Len(refTokens), k)

\* C7 as amended: there is exactly one delete op and every other op is equal; the
\* delete is the removed token's when no two reference tokens roughly match, and
\* for the/cat/sat against the/sat it is the last token's.
C7_OneDeleteOthersEqual ==
    alignPc = "done" =>
        \A k \in 1..Len(refTokens) :
            LeavesOneOut(refTokens, hypTokens, k) =>
                /\ Len(ops) = Len(refTokens)
                /\ Cardinality({x \in 1..Len(ops) : ops[x].type = "delete"}) = 1
                /\ \A x \in 1..Len(ops) : ops[x].type \in {"delete", "equal"}
                /\ NoRoughTwins(refTokens) => ops = OneDeletionAt(Len(refTokens), k)
                /\ (refTokens = <<wThe, wCat, wSat>> /\ hypTokens = <<wThe, wSat>>)
                      => ops = <<OpEqual(0, 0), OpEqual(1, 1), OpDelete(2)>>

C7_Witness ==
    /\ alignPc = "done"
    /\ refTokens = <<wThe, wCat, wSat>>
    /\ hypTokens = <<wThe, wSat>>
    /\ ops = <<OpEqual(0, 0), OpEqual(1, 1), OpDelete(2)>>

\* C8: the substitution cost of a pair is 0, and the pair is emitted as equal when
\* taken on the diagonal, exactly if the tokens are identical or their edit distance
\* over the longer length is at most 0.45; otherwise the cost is 1 and the op replace.
\* (The table is looked at when the backtrace starts; it does not change after.)
C8_RoughMatchDecidesCostAndType ==
    /\ (alignPc = "backtrace" /\ ops = <<>>) =>
          \A i \in 1..Len(refTokens), j \in 1..Len(hypTokens) :
              LET cost == IF WithinRoughRatio(refTokens[i], hypTokens[j]) THEN 0 ELSE 1
              IN /\ SubstCost(refTokens, hypTokens, i, j) = cost
                 /\ DpAt(dp, i, j) = Min3(DpAt(dp, i - 1, j) + 1,
                                          DpAt(dp, i, j - 1) + 1,
                                          DpAt(dp, i - 1, j - 1) + cost)
    /\ \A k \in 1..Len(ops) :
          ops[k].type \in {"equal", "replace"} =>
              /\ ops[k].refIndex \in 0..(Len(refTokens) - 1)
              /\ ops[k].hypIndex \in 0..(Len(hypTokens) - 1)
              /\ ops[k].type = "equal" <=>
                    WithinRoughRatio(refTokens[ops[k].refIndex + 1],
                                     hypTokens[ops[k].hypIndex + 1])

C8_Witness ==
    /\ alignPc = "done"
    /\ \E k \in 1..Len(ops) :
          /\ ops[k].type = "equal"
          /\ refTokens[ops[k].refIndex + 1] # hypTokens[ops[k].hypIndex + 1]
    /\ \E k \in 1..Len(ops) :
          /\ ops[k].type = "replace"
          /\ EditDistance(refTokens[ops[k].refIndex + 1],
                          hypTokens[ops[k].hypIndex + 1]) = 2

\* the two tests of a backtrace step at (i, j), read off the table
DeletionFits(i, j) == i > 0 /\ dp[i + 1][j + 1] = dp[i][j + 1] + 1
InsertionFits(i, j) == j > 0 /\ dp[i + 1][j + 1] = dp[i + 1][j] + 1

\* C24: every backtrace step chooses its predecessor in the order deletion,
\* insertion, diagonal: it pushes a delete op whenever i > 0 and
\* dp[i][j] = dp[i-1][j] + 1; otherwise an insert op whenever j > 0 and
\* dp[i][j] = dp[i][j-1] + 1; otherwise an equal or replace op, and then i > 0 and
\* j > 0.
C24_BacktracePriority ==
    [][(alignPc = "backtrace" /\ alignPc' = "backtrace") =>
          /\ Len(ops') = Len(ops) + 1
          /\ SubSeq(ops', 1, Len(ops)) = ops
          /\ LET op == ops'[Len(ops')]
             IN IF DeletionFits(bi, bj)
                THEN op = OpDelete(bi - 1) /\ bi' = bi - 1 /\ bj' = bj
                ELSE IF InsertionFits(bi, bj)
                THEN op = OpInsert(bj - 1) /\ bi' = bi /\ bj' = bj - 1
                ELSE /\ bi > 0 /\ bj > 0
                     /\ op.type \in {"equal", "replace"}
                     /\ op.refIndex = bi - 1 /\ op.hypIndex = bj - 1
                     /\ bi' = bi - 1 /\ bj' = bj - 1]_vars
\* a step where both the deletion and the insertion fitted has pushed a delete op
C24_Witness ==
    /\ alignPc = "backtrace"
    /\ ops # <<>>
    /\ ops[Len(ops)] = OpDelete(bi)
    /\ DeletionFits(bi + 1, bj)
    /\ InsertionFits(bi + 1, bj)

-----------------------------------------------------------------------------
(* Properties of buildWordTimelineFromSherpa *)

\* C4: the endTime values of the timeline entries are non-decreasing in alignment
\* order: no entry ends earlier than the entry before it.
C4_EndTimesNeverRegress ==
    tlPc = "done" =>
        \A k \in 2..Len(tlResult.timeline) :
            tlResult.timeline[k].endTime >= tlResult.timeline[k - 1].endTime

EntryTexts(timeline) == [k \in 1..Len(timeline) |-> timeline[k].text]
OriginalsOf(tokens) == [k \in 1..Len(tokens) |-> tokens[k].original]

\* C14: for a reference with at least one token and any recognized word timings,
\* none included, the timeline holds exactly one entry per reference token, in
\* reference order, and no entry for an inserted recognized word.
C14_OneEntryPerReferenceToken ==
    (tlPc = "done" /\ tlResult.tokens # <<>>) =>
        EntryTexts(tlResult.timeline) = OriginalsOf(tlResult.tokens)

\* the positions of the text that hold a blank
BlankPositions(text) == {k \in 1..Len(text) : text[k] = " "}

\* C23: for all texts a and b, tokenizeForAlignment(a + " " + b) is the concatenation
\* of tokenizeForAlignment(a) and tokenizeForAlignment(b): wherever the reference
\* text is cut at a blank, its tokens are those of the part before the blank
\* followed by those of the part after it.
C23_TokenizeDistributesOverBlank ==
    tlPc = "done" =>
        \A k \in BlankPositions(tlInput.referenceText) :
            tlResult.tokens =
                tokenizeForAlignment(SubSeq(tlInput.referenceText, 1, k - 1))
                    \o tokenizeForAlignment(SubSeq(tlInput.referenceText, k + 1,
                                                   Len(tlInput.referenceText)))
C23_Witness ==
    /\ tlPc = "done"
    /\ tlInput.referenceText = <<"t", "h", "e", " ", "c", "a", "t">>
    /\ OriginalsOf(tlResult.tokens) = <<wThe, wCat>>

\* the timeline entry that the k-th op added (inserts add none)
EntryOfOpAt(k) ==
    tlResult.timeline[Cardinality({h \in 1..k : tlResult.ops[h].type # "insert"})]
PairedOps == {k \in 1..Len(tlResult.ops) : tlResult.ops[k].type \in {"equal", "replace"}}
MetaOfOpAt(k) == tlInput.sherpaWords[tlResult.ops[k].hypIndex + 1]
InOrderFromZero(meta) == meta.endTime >= meta.startTime /\ meta.startTime >= 0

\* C25 as claimed: for a recognized word with endTime >= startTime >= 0 the window of
\* its Match or Substitution entry is start' = max(0, startTime - 0.2) and
\* end' = max(endTime + 0.3, start' + 0.05).
C25_WindowFloorAfterPadding ==
    tlPc = "done" =>
        \A k \in PairedOps :
            InOrderFromZero(MetaOfOpAt(k)) =>
                LET start == Max2(0, MetaOfOpAt(k).startTime - 200)
                IN /\ EntryOfOpAt(k).startTime = start
                   /\ EntryOfOpAt(k).endTime = Max2(MetaOfOpAt(k).endTime + 300, start + 50)

\* C25: for a recognized word with endTime >= startTime >= 0 the window of its Match
\* or Substitution entry is start' = max(0, startTime - 0.2) and
\* end' = max(endTime, startTime + 0.05) + 0.3: the 0.05 s floor is applied to the
\* word before the padding.
C25_WindowFloorBeforePadding ==
    tlPc = "done" =>
        \A k \in PairedOps :
            InOrderFromZero(MetaOfOpAt(k)) =>
                /\ EntryOfOpAt(k).startTime = Max2(0, MetaOfOpAt(k).startTime - 200)
                /\ EntryOfOpAt(k).endTime =
                       Max2(MetaOfOpAt(k).endTime, MetaOfOpAt(k).startTime + 50) + 300
\* a word that takes no time (1.0 to 1.0) got the window 0.8 to 1.35
C25_Witness ==
    /\ tlPc = "done"
    /\ \E k \in PairedOps :
          /\ MetaOfOpAt(k).startTime = 1000 /\ MetaOfOpAt(k).endTime = 1000
          /\ EntryOfOpAt(k).startTime = 800 /\ EntryOfOpAt(k).endTime = 1350

DeleteOps == {k \in 1..Len(tlResult.ops) : tlResult.ops[k].type = "delete"}
EntryIndexOfOpAt(k) == Cardinality({h \in 1..k : tlResult.ops[h].type # "insert"})
\* the end of the entry emitted before the entry of the k-th op, 0 if there is none
EndBeforeOpAt(k) ==
    IF EntryIndexOfOpAt(k) = 1 THEN 0
    ELSE tlResult.timeline[EntryIndexOfOpAt(k) - 1].endTime

\* C26: the window of every delete op starts at max(0, lastEnd - 0.1) and ends 0.4 s
\* later, lastEnd being the end of the entry emitted just before it in alignment
\* order (0 if there is none); insert ops in between do not change lastEnd.
C26_OmittedWindowFollowsLastEnd ==
    tlPc = "done" =>
        \A k \in DeleteOps :
            /\ EntryOfOpAt(k).startTime = Max2(0, EndBeforeOpAt(k) - 100)
            /\ EntryOfOpAt(k).endTime = EntryOfOpAt(k).startTime + 400
\* an omitted word right after another omitted word that followed a spoken one
C26_Witness ==
    /\ tlPc = "done"
    /\ \E k \in DeleteOps :
          /\ k > 2
          /\ tlResult.ops[k - 1].type = "delete"
          /\ tlResult.ops[k - 2].type \in {"equal", "replace"}
          /\ EndBeforeOpAt(k) > 400
          /\ EntryOfOpAt(k).startTime = EndBeforeOpAt(k) - 100

\* C27: whatever the recognized timings are, an end before the start and times
\* before 0 included, every timeline entry starts at 0 or later and lasts at least
\* MIN_WORD_DURATION (0.05 s).
C27_EntriesStartFromZeroAndLast ==
    tlPc = "done" =>
        \A k \in 1..Len(tlResult.timeline) :
            /\ tlResult.timeline[k].startTime >= 0
            /\ tlResult.timeline[k].endTime - tlResult.timeline[k].startTime
                   >= MIN_WORD_DURATION
\* a word that ends before it starts and a word before time 0 both got a window,
\* the second one the shortest there is
C27_Witness ==
    /\ tlPc = "done"
    /\ \E k \in PairedOps : MetaOfOpAt(k).endTime < MetaOfOpAt(k).startTime
    /\ \E k \in PairedOps :
          /\ MetaOfOpAt(k).endTime < 0
          /\ EntryOfOpAt(k).startTime = 0
          /\ EntryOfOpAt(k).endTime = MIN_WORD_DURATION

-----------------------------------------------------------------------------
(* Properties of ScoringEngine.assess *)

IsScore(x) == x \in 0..100

TextsOf(tokens) == [k \in 1..Len(tokens) |-> tokens[k].text]
StatusesOf(details) == [k \in 1..Len(details) |-> details[k].status]
WordsOf(details) == [k \in 1..Len(details) |-> details[k].word]

TheCatSat == <<"t", "h", "e", " ", "c", "a", "t", " ", "s", "a", "t">>
SherpaToken(text, start, end, confidence) ==
    [text |-> text, start |-> start, end |-> end, confidence |-> confidence]

\* C1: whatever the reference text and the recognized words, the four scores of the
\* report are integers in 0..100.
C1_ScoresAreIntegersInRange ==
    asPc = "done" =>
        /\ IsScore(asReport.overallScore)
        /\ IsScore(asReport.fluencyScore)
        /\ IsScore(asReport.integrityScore)
        /\ IsScore(asReport.pronunciationScore)

Scenario1 ==
    /\ asPc = "done"
    /\ asInput.referenceText = TheCatSat
    /\ asInput.recognizedTokens =
          << SherpaToken(wThe, 0, 300, 900), SherpaToken(wCat, 300, 600, 900),
             SherpaToken(wSat, 600, 900, 900) >>

Scenario1SubScores ==
    /\ [k \in 1..Len(asTrace.alignment) |-> asTrace.alignment[k].type]
          = <<"match", "match", "match">>
    /\ asReport.integrityScore = 100
    /\ asReport.pronunciationScore = 90
    /\ asReport.fluencyScore = 100

\* C5 as claimed: "the cat sat" recognized word for word at confidence 0.9 gives three
\* matches, integrity 100, pronunciation 90, fluency 100 and overall 94.
C5_Scenario1Overall94 ==
    Scenario1 => (Scenario1SubScores /\ asReport.overallScore = 94)

\* C5 as amended: the same, with overall 95 = round(90 * 0.5 + 100 * 0.3 + 100 * 0.2).
C5_Scenario1Overall95 ==
    Scenario1 => (Scenario1SubScores /\ asReport.overallScore = 95)

C5_Witness == Scenario1 /\ asReport.overallScore = 95

\* the reference words of the call are pairwise distinct and the recognized texts
\* are those words with word k (1-based) left out
RecognizedLeavesOut(k) ==
    LeavesOneOut(asTrace.refWords, TextsOf(asInput.recognizedTokens), k)

\* C6: when the recognized words are the pairwise-distinct reference words with one
\* left out, that word is omitted with score 0, every other word is correct, and
\* integrityScore = round(100 * (n - 1) / n); 67 for "the cat sat" heard as the, sat.
C6_LeftOutWordIsOmitted ==
    asPc = "done" =>
        \A k \in 1..Len(asTrace.refWords) :
            RecognizedLeavesOut(k) =>
                LET n == Len(asTrace.refWords)
                IN /\ WordsOf(asReport.details) = asTrace.refWords
                   /\ StatusesOf(asReport.details)
                        = [x \in 1..n |-> IF x = k THEN "omitted" ELSE "correct"]
                   /\ asReport.details[k].score = 0
                   /\ 2 * n * asReport.integrityScore <= 200 * (n - 1) + n
                   /\ 2 * n * asReport.integrityScore > 200 * (n - 1) - n
                   /\ (asInput.referenceText = TheCatSat /\ k = 2)
                        => asReport.integrityScore = 67

C6_Witness ==
    /\ asPc = "done"
    /\ asInput.referenceText = TheCatSat
    /\ TextsOf(asInput.recognizedTokens) = <<wThe, wSat>>
    /\ StatusesOf(asReport.details) = <<"correct", "omitted", "correct">>
    /\ asReport.integrityScore = 67

IsPairedItem(item) == item.type \in {"match", "substitution"}

CatHeardAsKat ==
    /\ asPc = "done"
    /\ asInput.referenceText = wCat
    /\ asInput.recognizedTokens = << SherpaToken(wKat, 500, 1000, 800) >>

NothingRecognized ==
    /\ asPc = "done"
    /\ asInput.recognizedTokens = <<>>
    /\ trim(asInput.referenceText) # <<>>

EveryWordOmitted ==
    LET refWords == normalizeAndTokenize(asInput.referenceText)
    IN asReport.details
         = [k \in 1..Len(refWords) |-> WordResult(refWords[k], "omitted", 0, NoTimestamps)]

\* C10 as claimed: with a non-empty reference and no recognized word, details hold one
\* omitted entry of score 0 per reference word, pronunciation and integrity are 0,
\* fluency is max(0, 100 - 5 * 0) = 100 and overall is round(100 * 0.2) = 20.
C10_NothingRecognizedByFormulas ==
    NothingRecognized =>
        /\ EveryWordOmitted
        /\ asReport.pronunciationScore = 0
        /\ asReport.integrityScore = 0
        /\ asReport.fluencyScore = 100
        /\ asReport.overallScore = 20

\* C10 as amended: the same details, and all four scores 0 (fluency and overall are
\* set to 0, not computed by the aggregate formulas).
C10_NothingRecognizedAllZero ==
    NothingRecognized =>
        /\ EveryWordOmitted
        /\ asReport.pronunciationScore = 0
        /\ asReport.integrityScore = 0
        /\ asReport.fluencyScore = 0
        /\ asReport.overallScore = 0

C10_Witness ==
    /\ NothingRecognized
    /\ asInput.referenceText = TheCatSat
    /\ StatusesOf(asReport.details) = <<"omitted", "omitted", "omitted">>
    /\ asReport.fluencyScore = 0
    /\ asReport.overallScore = 0

-----------------------------------------------------------------------------
(* Properties of the other scorers *)

IsFull(q) == q.num = 100 * q.den

\* C12: for the reference "" and any recognized transcript, no scorer returns a score
\* of 100: not assessBySherpaWasm or assessByWhisperLocal (pronunciationScore,
\* accuracyScore, completenessScore), not TransformersScoringService.score (score,
\* accuracy, completeness, fluency).
C12_EmptyReferenceNeverScores100 ==
    (scPc = "done" /\ scInput.reference = <<>>) =>
        IF scInput.scorer = "transformers"
        THEN /\ scResult.score # 100
             /\ scResult.accuracy # 100
             /\ scResult.completeness # 100
             /\ scResult.fluency # 100
        ELSE /\ ~IsFull(scResult.pronunciationScore)
             /\ ~IsFull(scResult.accuracyScore)
             /\ ~IsFull(scResult.completenessScore)

-----------------------------------------------------------------------------
(* Properties of ScoringEngine.assess: the report, field by field *)

IsBlank(text) == \A k \in 1..Len(text) : text[k] \in Whitespace

\* the call went through the alignment: the reference is not blank and at least one
\* word was recognized
ThroughAlignment ==
    /\ asPc = "done"
    /\ ~IsBlank(asInput.referenceText)
    /\ asInput.recognizedTokens # <<>>

\* result = Math.round(num / den) as numbers: not a number for 0 / 0, else the
\* nearest integer, halves upwards
IsRounded(result, num, den) ==
    IF den = 0 THEN result = NaN
    ELSE /\ result \in Int
         /\ 2 * den * result <= 2 * num + den
         /\ 2 * den * result > 2 * num - den

ItemsOfType(type) == {k \in 1..Len(asTrace.alignment) : asTrace.alignment[k].type = type}

\* C11: for an empty or whitespace-only reference text, whatever was recognized, the
\* four scores are 0 and details is empty.
C11_BlankReferenceAllZero ==
    (asPc = "done" /\ IsBlank(asInput.referenceText)) =>
        /\ asReport.overallScore = 0
        /\ asReport.fluencyScore = 0
        /\ asReport.integrityScore = 0
        /\ asReport.pronunciationScore = 0
        /\ asReport.details = <<>>

C11_Witness ==
    /\ asPc = "done"
    /\ asInput.referenceText = <<" ", " ">>
    /\ Len(asInput.recognizedTokens) >= 2
    /\ asReport.overallScore = 0
    /\ asReport.details = <<>>

\* C13: with a non-blank reference and at least one recognized word, details holds
\* exactly one entry per reference word, in reference order, each correct,
\* mispronounced or omitted; extra recognized words add nothing to it.
C13_OneDetailPerReferenceWord ==
    ThroughAlignment =>
        /\ WordsOf(asReport.details) = asTrace.refWords
        /\ \A k \in 1..Len(asReport.details) :
              asReport.details[k].status \in {"correct", "mispronounced", "omitted"}

C13_Witness ==
    /\ ThroughAlignment
    /\ ItemsOfType("insertion") # {}
    /\ Len(asTrace.refWords) >= 2
    /\ WordsOf(asReport.details) = asTrace.refWords
    /\ \E k \in 1..Len(asReport.details) : asReport.details[k].status = "omitted"
    /\ \E k \in 1..Len(asReport.details) : asReport.details[k].status = "correct"

\* the silences between consecutive recognized words, insertions included
GapsOf(tokens) == [i \in 1..(Len(tokens) - 1) |-> tokens[i + 1].start - tokens[i].end]
LongGaps(tokens) == {i \in 1..(Len(tokens) - 1) : GapsOf(tokens)[i] > 500}

\* C15: fluencyScore = max(0, 100 - 5 * p), p the number of silences strictly longer
\* than 0.5 s in the raw recognized list; a silence of 0.6 s is one pause, a silence
\* of exactly 0.5 s is none.
C15_FluencyFromPauses ==
    ThroughAlignment =>
        LET p == Cardinality(LongGaps(asInput.recognizedTokens))
        IN /\ asReport.fluencyScore = (IF 100 - 5 * p > 0 THEN 100 - 5 * p ELSE 0)
           /\ (\A i \in 1..(Len(asInput.recognizedTokens) - 1) :
                   GapsOf(asInput.recognizedTokens)[i] <= 500)
                => asReport.fluencyScore = 100

C15_Witness ==
    /\ ThroughAlignment
    /\ ItemsOfType("insertion") # {}
    /\ \E i \in 1..(Len(asInput.recognizedTokens) - 1) :
          GapsOf(asInput.recognizedTokens)[i] = 500
    /\ \E i \in 1..(Len(asInput.recognizedTokens) - 1) :
          GapsOf(asInput.recognizedTokens)[i] = 600
    /\ Cardinality(LongGaps(asInput.recognizedTokens)) = 1
    /\ asReport.fluencyScore = 95

ScoresOf(details) == [k \in 1..Len(details) |-> details[k].score]

C17_IntegrityIsMatchRatio ==
    ThroughAlignment =>
        IsRounded(asReport.integrityScore, 100 * Cardinality(ItemsOfType("match")),
                  Len(asTrace.refWords))

C17_Witness ==
    /\ ThroughAlignment
    /\ Len(asTrace.refWords) = 3
    /\ Cardinality(ItemsOfType("match")) = 1
    /\ ItemsOfType("substitution") # {}
    /\ ItemsOfType("deletion") # {}
    /\ asReport.integrityScore = 33

\* C18: overallScore = round(pronunciationScore * 0.5 + integrityScore * 0.3
\* + fluencyScore * 0.2) of the sub-scores of the same report.
C18_OverallIsWeightedSum ==
    ThroughAlignment =>
        IF \/ asReport.pronunciationScore = NaN
           \/ asReport.integrityScore = NaN
           \/ asReport.fluencyScore = NaN
        THEN asReport.overallScore = NaN
        ELSE IsRounded(asReport.overallScore,
                       5 * asReport.pronunciationScore + 3 * asReport.integrityScore
                         + 2 * asReport.fluencyScore,
                       10)

\* pronunciation 53, integrity 0, fluency 100: 46.5 is rounded up to 47
C18_Witness ==
    /\ ThroughAlignment
    /\ asReport.pronunciationScore = 53
    /\ asReport.integrityScore = 0
    /\ asReport.fluencyScore = 100
    /\ asReport.overallScore = 47

\* the confidence (thousandths) of recognized token j, 0.95 when it carries none
ConfidenceOrDefault(j) ==
    IF asInput.recognizedTokens[j].confidence = NoConfidence THEN 950
    ELSE asInput.recognizedTokens[j].confidence

\* C19: every match item gives a details entry with status correct and score
\* round(confidence * 100) of the matched recognized word, the confidence being 0.95
\* when the word carries none.
C19_MatchScoreFromConfidence ==
    ThroughAlignment =>
        \A k \in ItemsOfType("match") :
            LET item == asTrace.alignment[k]
                entry == asReport.details[item.refIndex + 1]
            IN /\ entry.word = asTrace.refWords[item.refIndex + 1]
               /\ entry.status = "correct"
               /\ IsRounded(entry.score, ConfidenceOrDefault(item.recIndex + 1), 10)

C19_Witness ==
    /\ ThroughAlignment
    /\ \E k \in ItemsOfType("match") :
          /\ asInput.recognizedTokens[asTrace.alignment[k].recIndex + 1].confidence
                = NoConfidence
          /\ asReport.details[asTrace.alignment[k].refIndex + 1].score = 95
    /\ \E k \in ItemsOfType("match") :
          asReport.details[asTrace.alignment[k].refIndex + 1].score = 90

\* the edit distance of every pair of words of the model
WordDistance == [p \in ModelWords \X ModelWords |-> EditDistance(p[1], p[2])]

\* C20: every substitution item gives a details entry with status mispronounced and
\* score 40 + round(20 * (1 - editDistance / max length)) on the normalized words,
\* a score in 40..60.
C20_SubstitutionScoreFromSimilarity ==
    ThroughAlignment =>
        \A k \in ItemsOfType("substitution") :
            LET item == asTrace.alignment[k]
                entry == asReport.details[item.refIndex + 1]
                ref == asTrace.refWords[item.refIndex + 1]
                hyp == asTrace.recNormalized[item.recIndex + 1]
                maxLen == IF Len(ref) >= Len(hyp) THEN Len(ref) ELSE Len(hyp)
            IN /\ entry.word = ref
               /\ entry.status = "mispronounced"
               /\ entry.score \in 40..60
               /\ IsRounded(entry.score - 40, 20 * (maxLen - WordDistance[<<ref, hyp>>]),
                            maxLen)

C20_Witness ==
    /\ ThroughAlignment
    /\ \E k \in ItemsOfType("substitution") :
          asReport.details[asTrace.alignment[k].refIndex + 1].score = 53
    /\ \E k \in ItemsOfType("substitution") :
          asReport.details[asTrace.alignment[k].refIndex + 1].score = 40

-----------------------------------------------------------------------------
(* Properties of ScoringEngine.assess on the recognizer's raw tokens *)

\* C21: no comparison key handed to the aligner is empty: assess aligns no reference
\* word and no recognized token whose normalized form is empty (a recognized token
\* that is only punctuation is dropped, not aligned).
C21_AlignedKeysAreNonEmpty ==
    (asPc = "done" /\ asTrace.path = "aligned") =>
        /\ \A k \in 1..Len(asTrace.refWords) : asTrace.refWords[k] # <<>>
        /\ \A k \in 1..Len(asTrace.recNormalized) : asTrace.recNormalized[k] # <<>>

IsFinite(x) == x \in Int /\ x # NaN

\* C22: with a reference that has words, whatever fields of the recognized tokens
\* are missing or not a number, every word score and every aggregate score of the
\* report is finite.
C22_ReportIsFinite ==
    (asPc = "done" /\ asTrace.refWords # <<>>) =>
        /\ IsFinite(asReport.overallScore)
        /\ IsFinite(asReport.fluencyScore)
        /\ IsFinite(asReport.integrityScore)
        /\ IsFinite(asReport.pronunciationScore)
        /\ \A k \in 1..Len(asReport.details) : IsFinite(asReport.details[k].score)

-----------------------------------------------------------------------------
(* Properties of alignSequence and alignTokens together *)

\* the op type of alignTokens that stands for an item type of alignSequence
OpTypeOfItemType(type) ==
    CASE type = "match" -> "equal"
      [] type = "substitution" -> "replace"
      [] type = "deletion" -> "delete"
      [] type = "insertion" -> "insert"
TypesOf(items) == [k \in 1..Len(items) |-> items[k].type]

\* C28: for every pair of lower-case token sequences, alignSequence and alignTokens
\* return the same sequence of operation types, hence the same numbers of matches,
\* substitutions, deletions and insertions.
C28_AlignersAgree ==
    (scPc = "done" /\ scInput.scorer = "aligners") =>
        [k \in 1..Len(scResult.alignSequence) |->
            OpTypeOfItemType(scResult.alignSequence[k].type)]
            = TypesOf(scResult.alignTokens)

-----------------------------------------------------------------------------
(* Properties of the Sherpa initialization *)

\* C29: after a failed initialization the worker executes its init procedure again
\* for a later initSherpaWasm call: when it handles an "init" message while its
\* last init has failed, it starts init once more (so that an attempt made after
\* the cause of the failure is gone can end with "inited").
C29_InitRunsAgainAfterFailure ==
    [][(Len(toWorker') < Len(toWorker) /\ wkInitPromise = "rejected") =>
          wkInitRuns' = wkInitRuns + 1]_vars

-----------------------------------------------------------------------------
(* Properties of EchogardenWrapper *)

\* C30: whenever a call of recognize, align or alignSegments has settled, resolved
\* or rejected, the "unhandledRejection" listener it registered has been removed:
\* once all calls made have settled, no listener of theirs is left.
C30_SettledCallLeavesNoListener ==
    \A k \in 1..Len(egCalls) :
        egCalls[k].promise # "pending" => k \notin egListeners

=============================================================================
